---- MODULE Spec2Model ----
(***************************************************************************)
(* sqlbind: parameterised SQL fragment composition.                        *)
(*                                                                         *)
(* A fragment (Expr / str) is a sequence of text atoms; the concatenation  *)
(* of the atoms is the Python string.  A template is a fragment in which   *)
(* the atom "{}" is a replacement field of str.format.                     *)
(* A Python value is a record [kind, n, s]: kind is the exact type, n the  *)
(* number of an int/bool, s the characters of a str or the items of a      *)
(* list.                                                                   *)
(***************************************************************************)
EXTENDS Integers, Sequences, FiniteSets, TLC

VARIABLES q, ret, last, tokens, bound, clean, exact, q2, ref2, bound2, exprs

vars == <<q, ret, last, tokens, bound, clean, exact, q2, ref2, bound2, exprs>>

-----------------------------------------------------------------------------
(* Bounds of the model *)

\* binds are taken while fewer than MaxCount values have been bound
MaxCount == 2
\* longest list handed to IN
MaxInLen == 11
\* longest str among the values of an inline IN list
MaxStrLen == 2
\* most fragments handed to one AND / OR / clause builder
MaxFrags == 3
\* most attribute-path expressions alive at a time
MaxExprs == 2

-----------------------------------------------------------------------------
(* Python values *)

IntV(i) == [kind |-> "int", n |-> i, s |-> <<>>]
StrV(cs) == [kind |-> "str", n |-> 0, s |-> cs]
ListV(xs) == [kind |-> "list", n |-> 0, s |-> xs]
None == [kind |-> "NoneType", n |-> 0, s |-> <<>>]
UNDEFINED == [kind |-> "object", n |-> 0, s |-> <<>>]
\* a float, by the text str() gives for it
FloatV(text) == [kind |-> "float", n |-> 0, s |-> <<text>>]
\* True is 1 and False is 0, of type bool
BoolV(b) == [kind |-> "bool", n |-> IF b THEN 1 ELSE 0, s |-> <<>>]

\* bool(v): None, 0, '' and [] are false, any bare object() is true
Truthy(v) ==
    CASE v.kind = "NoneType" -> FALSE
      [] v.kind \in {"int", "bool"} -> v.n # 0
      [] v.kind = "str" -> v.s # <<>>
      [] v.kind = "list" -> v.s # <<>>
      [] OTHER -> TRUE

EMPTY == <<>>

\* what an operation hands back: the text, which object it is ("EMPTY" is
\* the module-level EMPTY itself), and the exception when it raises
Returned(text, obj) == [text |-> text, obj |-> obj, raised |-> FALSE]
Raised(exc) == [text |-> <<>>, obj |-> exc, raised |-> TRUE]

\* the Python str a fragment stands for
RECURSIVE Flat(_)
Flat(f) == IF f = <<>> THEN "" ELSE Head(f) \o Flat(Tail(f))

-----------------------------------------------------------------------------
(* str.format with automatically numbered '{}' fields *)

IsField(a) == a = "{}"

NumFields(expr) == Len(SelectSeq(expr, IsField))

RECURSIVE format(_, _)
format(expr, args) ==
    IF expr = <<>> THEN <<>>
    ELSE IF IsField(Head(expr))
         THEN <<Head(args)>> \o format(Tail(expr), Tail(args))
         ELSE <<Head(expr)>> \o format(Tail(expr), args)

\* format raises IndexError when a field has no argument; surplus
\* arguments are ignored
FormatRaises(expr, args) == NumFields(expr) > Len(args)

\* how many of the arguments end up in the text
Used(expr, args) ==
    IF NumFields(expr) <= Len(args) THEN NumFields(expr) ELSE 0

-----------------------------------------------------------------------------
(* Accumulators: QueryParams is the list or the dict itself *)

Styles == {"qmark", "numeric", "format", "named", "pyformat"}
ListStyles == {"qmark", "numeric", "format"}
Dialects == {"BaseDialect", "SQLiteDialect"}

\* DictQueryParams.__init__ / ListQueryParams.__init__
QueryParams(style, dialect) ==
    [style |-> style, dialect |-> dialect, list |-> <<>>, dict |-> <<>>,
     count |-> 0]

HasKey(d, k) == \E i \in 1..Len(d) : d[i].key = k

\* dict[k] = v: an existing key keeps its place and takes the new value
SetItem(d, k, v) ==
    IF HasKey(d, k)
    THEN [i \in 1..Len(d) |-> IF d[i].key = k THEN [key |-> k, value |-> v]
                                              ELSE d[i]]
    ELSE Append(d, [key |-> k, value |-> v])

RECURSIVE update(_, _, _)
update(d, names, params) ==
    IF names = <<>> \/ params = <<>> THEN d
    ELSE update(SetItem(d, Head(names), Head(params)), Tail(names), Tail(params))

GetItem(d, k) == d[CHOOSE i \in 1..Len(d) : d[i].key = k].value

\* add that numbers the names of every call from p0
DictAdd_FromZero(acc, params) ==
    LET start == acc.count
        names == [i \in 1..Len(params) |-> "p" \o ToString(i - 1)]
    IN [q |-> [acc EXCEPT !.count = start + Len(params),
                          !.dict = update(acc.dict, names, params)],
        names |-> names]

DictAdd(acc, params) ==
    LET start == acc.count
        names == [i \in 1..Len(params) |-> "p" \o ToString(start + i - 1)]
    IN [q |-> [acc EXCEPT !.count = start + Len(params),
                          !.dict = update(acc.dict, names, params)],
        names |-> names]

ListAdd(acc, params) ==
    LET start == acc.count
    IN [q |-> [acc EXCEPT !.count = start + Len(params),
                          !.list = acc.list \o params],
        start |-> start]

\* the numeric style without the + 1
Marks_NumericFromZero(acc, params) ==
    LET k == Len(params) IN
    CASE acc.style = "qmark" -> [i \in 1..k |-> "?"]
      [] acc.style = "format" -> [i \in 1..k |-> "%s"]
      [] acc.style = "numeric" ->
            LET start == ListAdd(acc, params).start
            IN [i \in 1..k |-> ":" \o ToString(start + i - 1)]
      [] acc.style = "named" ->
            LET names == DictAdd(acc, params).names
            IN [i \in 1..k |-> ":" \o names[i]]
      [] acc.style = "pyformat" ->
            LET names == DictAdd(acc, params).names
            IN [i \in 1..k |-> "%(" \o names[i] \o ")s"]

\* the placeholder tokens of one compile call, by style
Marks(acc, params) ==
    LET k == Len(params) IN
    CASE acc.style = "qmark" -> [i \in 1..k |-> "?"]
      [] acc.style = "format" -> [i \in 1..k |-> "%s"]
      [] acc.style = "numeric" ->
            LET start == ListAdd(acc, params).start + 1
            IN [i \in 1..k |-> ":" \o ToString(start + i - 1)]
      [] acc.style = "named" ->
            LET names == DictAdd(acc, params).names
            IN [i \in 1..k |-> ":" \o names[i]]
      [] acc.style = "pyformat" ->
            LET names == DictAdd(acc, params).names
            IN [i \in 1..k |-> "%(" \o names[i] \o ")s"]

\* where in the storage the i-th param of a compile call went
Slot(acc, after, params, i) ==
    IF acc.style \in ListStyles THEN Len(acc.list) + i
    ELSE CHOOSE j \in 1..Len(after.dict) :
            after.dict[j].key = DictAdd(acc, params).names[i]

\* compile: add the params first, then format the template.  The result
\* carries the accumulator after the call and the text, and for the claims
\* the tokens that went into the text, each with the place in the storage
\* of the value it was made for, the values handed to add, and whether the
\* template had as many fields as there were params.
compile(acc, expr, params) ==
    LET after == IF acc.style \in ListStyles THEN ListAdd(acc, params).q
                                             ELSE DictAdd(acc, params).q
        marks == Marks(acc, params)
    IN IF FormatRaises(expr, marks)
       THEN [q |-> after, ret |-> Raised("IndexError"), toks |-> <<>>,
             vals |-> params, exact |-> FALSE]
       ELSE [q |-> after, ret |-> Returned(format(expr, marks), "str"),
             toks |-> [i \in 1..Used(expr, marks) |->
                         [tok |-> marks[i],
                          slot |-> Slot(acc, after, params, i)]],
             vals |-> params, exact |-> NumFields(expr) = Len(params)]

\* Expr(...) around a str result; an exception passes through
Expr(r) == IF r.ret.raised THEN r
           ELSE [r EXCEPT !.ret = Returned(r.ret.text, "Expr")]

\* a result that does not go through compile
Plain(acc, ret_) ==
    [q |-> acc, ret |-> ret_, toks |-> <<>>, vals |-> <<>>, exact |-> TRUE]

HasUndefined(params) == \E i \in 1..Len(params) : params[i] = UNDEFINED

\* QueryParams.__truediv__
truediv(acc, value) == Expr(compile(acc, <<"{}">>, <<value>>))

\* __call__ that looks for UNDEFINED in the first param only
call_FirstParamOnly(acc, expr, params) ==
    IF params # <<>> /\ params[1] = UNDEFINED
    THEN Plain(acc, Returned(EMPTY, "EMPTY"))
    ELSE Expr(compile(acc, expr, params))

\* QueryParams.__call__
call(acc, expr, params) ==
    IF HasUndefined(params) THEN Plain(acc, Returned(EMPTY, "EMPTY"))
    ELSE Expr(compile(acc, expr, params))

-----------------------------------------------------------------------------
(* Fragment algebra *)

NonEmpty(f) == f # <<>>

\* sep.join(fragments)
RECURSIVE join(_, _)
join(sep, fragments) ==
    IF fragments = <<>> THEN <<>>
    ELSE IF Len(fragments) = 1 THEN Head(fragments)
    ELSE Head(fragments) \o <<sep>> \o join(sep, Tail(fragments))

\* wrap.format(e): the text e goes where the field of wrap is
RECURSIVE WrapFormat(_, _)
WrapFormat(wrap, e) ==
    IF wrap = <<>> THEN <<>>
    ELSE (IF IsField(Head(wrap)) THEN e ELSE <<Head(wrap)>>)
         \o WrapFormat(Tail(wrap), e)

NoWrap == <<>>
Parens == <<"(", "{}", ")">>

\* join_fragments without the single fragment case
join_fragments_WrapsSingle(sep, fragments, wrap) ==
    LET kept == SelectSeq(fragments, NonEmpty) IN
    IF kept = <<>> THEN Returned(EMPTY, "EMPTY")
    ELSE LET e == join(sep, kept)
         IN Returned(IF wrap # NoWrap THEN WrapFormat(wrap, e) ELSE e, "Expr")

join_fragments(sep, fragments, wrap) ==
    LET kept == SelectSeq(fragments, NonEmpty) IN
    IF kept = <<>> THEN Returned(EMPTY, "EMPTY")
    ELSE IF Len(kept) = 1 THEN Returned(kept[1], "Expr")
    ELSE LET e == join(sep, kept)
         IN Returned(IF wrap # NoWrap THEN WrapFormat(wrap, e) ELSE e, "Expr")

OR(fragments) == join_fragments(" OR ", fragments, Parens)

AND(fragments) == join_fragments(" AND ", fragments, Parens)

\* __invert__ without the test of self
invert_Always(f) == Returned(<<"NOT ">> \o f, "Expr")

\* Expr.__and__ and Expr.__or__
and_(self, other) == AND(<<self, other>>)
or_(self, other) == OR(<<self, other>>)

\* Expr.__invert__
invert(f) == IF f # <<>> THEN Returned(<<"NOT ">> \o f, "Expr")
             ELSE Returned(EMPTY, "EMPTY")

\* prefix_join that prepends the prefix to an empty join too
prefix_join_Always(prefix, sep, fragments, wrap) ==
    LET e == join_fragments(sep, fragments, wrap)
    IN Returned(<<prefix>> \o e.text, "str")

prefix_join(prefix, sep, fragments, wrap) ==
    LET e == join_fragments(sep, fragments, wrap)
    IN IF e.text # <<>> THEN Returned(<<prefix>> \o e.text, "str")
       ELSE Returned(EMPTY, "EMPTY")

AND_(fragments) == prefix_join("AND ", " AND ", fragments, NoWrap)
OR_(fragments) == prefix_join("OR ", " OR ", fragments, NoWrap)
WHERE(fragments) == prefix_join("WHERE ", " AND ", fragments, NoWrap)
WITH_(fragments) == prefix_join("WITH ", ", ", fragments, NoWrap)
SET(fragments) == prefix_join("SET ", ", ", fragments, NoWrap)
FIELDS(fragments) == join_fragments(", ", fragments, NoWrap)
GROUP_BY(fragments) == prefix_join("GROUP BY ", ", ", fragments, NoWrap)
ORDER_BY(fragments) == prefix_join("ORDER BY ", ", ", fragments, NoWrap)

-----------------------------------------------------------------------------
(* Conditional markers *)

\* NotNone.__truediv__
NotNone_truediv(other) == IF other = None THEN UNDEFINED ELSE other

\* NotEmpty.__truediv__ that lets every value but None through
NotEmpty_truediv_NoneOnly(other) == IF other = None THEN UNDEFINED ELSE other

\* NotEmpty.__truediv__
NotEmpty_truediv(other) == IF ~Truthy(other) THEN UNDEFINED ELSE other

\* cond(c).__truediv__
cond_truediv(c, other) == IF ~Truthy(c) THEN UNDEFINED ELSE other

-----------------------------------------------------------------------------
(* Conditional binding and helpers of QueryParams *)

\* QueryParams.cond
cond(acc, c, expr, params) ==
    IF Truthy(c) THEN Expr(compile(acc, expr, params))
    ELSE Plain(acc, Returned(EMPTY, "EMPTY"))

\* not_none that tests the truth of the value
not_none_Truthy(acc, expr, param) ==
    IF Truthy(param) THEN Expr(compile(acc, expr, <<param>>))
    ELSE Plain(acc, Returned(EMPTY, "EMPTY"))

not_none(acc, expr, param) ==
    IF param # None THEN Expr(compile(acc, expr, <<param>>))
    ELSE Plain(acc, Returned(EMPTY, "EMPTY"))

not_empty(acc, expr, param) ==
    IF Truthy(param) THEN Expr(compile(acc, expr, <<param>>))
    ELSE Plain(acc, Returned(EMPTY, "EMPTY"))

LIMIT(acc, value) == call(acc, <<"LIMIT ", "{}">>, <<value>>)

OFFSET(acc, value) == call(acc, <<"OFFSET ", "{}">>, <<value>>)

\* the compile calls of a generator over kwargs.items(), left to right:
\* the accumulator after them and the texts they returned
RECURSIVE CompileItems(_, _, _, _)
CompileItems(acc, items, nullText, op) ==
    IF items = <<>>
    THEN [q |-> acc, frags |-> <<>>, toks |-> <<>>, vals |-> <<>>,
          exact |-> TRUE]
    ELSE LET it == Head(items) IN
         IF it.value = UNDEFINED
         THEN CompileItems(acc, Tail(items), nullText, op)
         ELSE LET r == IF nullText # "" /\ it.value = None
                       THEN compile(acc, <<it.key, nullText>>, <<>>)
                       ELSE compile(acc, <<it.key, op, "{}">>, <<it.value>>)
                  rest == CompileItems(r.q, Tail(items), nullText, op)
              IN [q |-> rest.q, frags |-> <<r.ret.text>> \o rest.frags,
                  toks |-> r.toks \o rest.toks, vals |-> r.vals \o rest.vals,
                  exact |-> r.exact /\ rest.exact]

\* kwargs after 'if field__: kwargs[str(field__)] = value__'
WithPositional(field__, value__, kwargs) ==
    IF field__ # "" THEN SetItem(kwargs, field__, value__) ELSE kwargs

\* eq that binds None like any other value
eq_BindsNone(acc, field__, value__, kwargs) ==
    LET c == CompileItems(acc, WithPositional(field__, value__, kwargs),
                          "", " = ")
    IN [q |-> c.q, ret |-> AND(c.frags), toks |-> c.toks, vals |-> c.vals,
        exact |-> c.exact]

eq(acc, field__, value__, kwargs) ==
    LET c == CompileItems(acc, WithPositional(field__, value__, kwargs),
                          " IS NULL", " = ")
    IN [q |-> c.q, ret |-> AND(c.frags), toks |-> c.toks, vals |-> c.vals,
        exact |-> c.exact]

neq(acc, field__, value__, kwargs) ==
    LET c == CompileItems(acc, WithPositional(field__, value__, kwargs),
                          " IS NOT NULL", " != ")
    IN [q |-> c.q, ret |-> AND(c.frags), toks |-> c.toks, vals |-> c.vals,
        exact |-> c.exact]

\* _in_range that compiles the right bound before the left one
_in_range_RightFirst(acc, field, lop, left, rop, right) ==
    LET r == IF right # UNDEFINED
             THEN compile(acc, <<field, " ", rop, " ", "{}">>, <<right>>)
             ELSE Plain(acc, Returned(<<>>, "str"))
        l == IF left # UNDEFINED
             THEN compile(r.q, <<field, " ", lop, " ", "{}">>, <<left>>)
             ELSE Plain(r.q, Returned(<<>>, "str"))
    IN [q |-> l.q, ret |-> AND(<<l.ret.text, r.ret.text>>),
        toks |-> r.toks \o l.toks, vals |-> r.vals \o l.vals,
        exact |-> l.exact /\ r.exact]

_in_range(acc, field, lop, left, rop, right) ==
    LET l == IF left # UNDEFINED
             THEN compile(acc, <<field, " ", lop, " ", "{}">>, <<left>>)
             ELSE Plain(acc, Returned(<<>>, "str"))
        r == IF right # UNDEFINED
             THEN compile(l.q, <<field, " ", rop, " ", "{}">>, <<right>>)
             ELSE Plain(l.q, Returned(<<>>, "str"))
    IN [q |-> r.q, ret |-> AND(<<l.ret.text, r.ret.text>>),
        toks |-> l.toks \o r.toks, vals |-> l.vals \o r.vals,
        exact |-> l.exact /\ r.exact]

in_range(acc, field, left, right) == _in_range(acc, field, ">=", left, "<", right)

in_crange(acc, field, left, right) == _in_range(acc, field, ">=", left, "<=", right)

\* assign that renders a None value as IS NULL, the way eq does
assign_NoneAsNull(acc, kwargs) ==
    LET c == CompileItems(acc, kwargs, " IS NULL", " = ")
    IN [q |-> c.q, ret |-> join_fragments(", ", c.frags, NoWrap),
        toks |-> c.toks, vals |-> c.vals, exact |-> c.exact]

assign(acc, kwargs) ==
    LET c == CompileItems(acc, kwargs, "", " = ")
    IN [q |-> c.q, ret |-> join_fragments(", ", c.frags, NoWrap),
        toks |-> c.toks, vals |-> c.vals, exact |-> c.exact]

\* QueryParams.SET
QueryParams_SET(acc, kwargs) ==
    LET a == assign(acc, kwargs)
    IN [a EXCEPT !.ret = SET(<<a.ret.text>>)]

\* QueryParams.WHERE
QueryParams_WHERE(acc, conds, kwargs) ==
    LET e == eq(acc, "", None, kwargs)
    IN [e EXCEPT !.ret = WHERE(<<e.ret.text>> \o conds)]

\* params.extend(it[f] for f in names) for every row
RECURSIVE Extend(_, _)
Extend(rows, names) ==
    IF rows = <<>> THEN <<>>
    ELSE [i \in 1..Len(names) |-> GetItem(Head(rows), names[i])]
         \o Extend(Tail(rows), names)

\* VALUES that takes the cells of every row in the row's own key order
VALUES_OwnOrder(acc, data, kwargs) ==
    LET rows == IF data = <<>> THEN <<kwargs>> ELSE data
        names == [i \in 1..Len(rows[1]) |-> rows[1][i].key]
        C == Len(names)
        marks == <<"(">> \o join(", ", [i \in 1..Len(names) |-> <<"{}">>])
                 \o <<")">>
        expr == <<"(">> \o join(", ", [i \in 1..Len(names) |-> <<names[i]>>])
                \o <<") VALUES ">>
                \o join(", ", [i \in 1..Len(rows) |-> marks])
    IN compile(acc, expr,
               [k \in 1..(Len(rows) * C) |->
                   rows[((k - 1) \div C) + 1][((k - 1) % C) + 1].value])

\* QueryParams.VALUES: data is a list of rows, a row a dict of column to cell
VALUES(acc, data, kwargs) ==
    LET rows == IF data = <<>> THEN <<kwargs>> ELSE data
        names == [i \in 1..Len(rows[1]) |-> rows[1][i].key]
        marks == <<"(">> \o join(", ", [i \in 1..Len(names) |-> <<"{}">>])
                 \o <<")">>
        expr == <<"(">> \o join(", ", [i \in 1..Len(names) |-> <<names[i]>>])
                \o <<") VALUES ">>
                \o join(", ", [i \in 1..Len(rows) |-> marks])
    IN compile(acc, expr, Extend(rows, names))

-----------------------------------------------------------------------------
(* Dialects *)

\* values above this count are rendered inline by SQLiteDialect.IN
InlineThreshold == 10

FALSE_(dialect) == IF dialect = "SQLiteDialect" THEN "0" ELSE "FALSE"

\* val.replace("'", "''") over the characters of a str
RECURSIVE replace(_)
replace(cs) ==
    IF cs = <<>> THEN <<>>
    ELSE (IF Head(cs) = "'" THEN <<"'", "'">> ELSE <<Head(cs)>>)
         \o replace(Tail(cs))

\* sqlite_escape that quotes a str without doubling its quotes
sqlite_escape_NoDoubling(val) ==
    IF val.kind = "str" THEN Returned(<<"'">> \o val.s \o <<"'">>, "str")
    ELSE IF val.kind = "int" THEN Returned(<<ToString(val.n)>>, "str")
    ELSE IF val.kind = "float" THEN Returned(val.s, "str")
    ELSE Raised("ValueError")

sqlite_escape(val) ==
    IF val.kind = "str" THEN Returned(<<"'">> \o replace(val.s) \o <<"'">>, "str")
    ELSE IF val.kind = "int" THEN Returned(<<ToString(val.n)>>, "str")
    ELSE IF val.kind = "float" THEN Returned(val.s, "str")
    ELSE Raised("ValueError")

\* sqlite_value_list that only looks at the type of the first value
sqlite_value_list_FirstOnly(values) ==
    LET escaped == [i \in 1..Len(values) |-> sqlite_escape(values[i])]
    IN IF escaped[1].raised
       THEN Raised("ValueError")
       ELSE Returned(join(",", [i \in 1..Len(values) |-> escaped[i].text]),
                     "str")

sqlite_value_list(values) ==
    LET escaped == [i \in 1..Len(values) |-> sqlite_escape(values[i])]
    IN IF \E i \in 1..Len(values) : escaped[i].raised
       THEN Raised("ValueError")
       ELSE Returned(join(",", [i \in 1..Len(values) |-> escaped[i].text]),
                     "str")

BaseDialect_IN(acc, field, values) ==
    call(acc, <<field, " IN ", "{}">>, <<values>>)

\* SQLiteDialect.IN that goes inline at the threshold already
SQLiteDialect_IN_AtThreshold(acc, field, values) ==
    IF Len(values.s) >= InlineThreshold
    THEN LET l == sqlite_value_list(values.s)
         IN IF l.raised THEN Plain(acc, l)
            ELSE Plain(acc, Returned(<<field, " IN (">> \o l.text \o <<")">>,
                                     "Expr"))
    ELSE LET qmarks == join(",", [i \in 1..Len(values.s) |-> <<"{}">>])
         IN call(acc, <<field, " IN (">> \o qmarks \o <<")">>, values.s)

SQLiteDialect_IN(acc, field, values) ==
    IF Len(values.s) > InlineThreshold
    THEN LET l == sqlite_value_list(values.s)
         IN IF l.raised THEN Plain(acc, l)
            ELSE Plain(acc, Returned(<<field, " IN (">> \o l.text \o <<")">>,
                                     "Expr"))
    ELSE LET qmarks == join(",", [i \in 1..Len(values.s) |-> <<"{}">>])
         IN call(acc, <<field, " IN (">> \o qmarks \o <<")">>, values.s)

\* IN that hands an empty list to the dialect
QueryParams_IN_EmptyToDialect(acc, field, values) ==
    IF values = None \/ values = UNDEFINED
    THEN Plain(acc, Returned(EMPTY, "EMPTY"))
    ELSE IF acc.dialect = "SQLiteDialect"
    THEN SQLiteDialect_IN(acc, field, values)
    ELSE BaseDialect_IN(acc, field, values)

\* QueryParams.IN
QueryParams_IN(acc, field, values) ==
    IF values = None \/ values = UNDEFINED
    THEN Plain(acc, Returned(EMPTY, "EMPTY"))
    ELSE IF Truthy(values)
    THEN (IF acc.dialect = "SQLiteDialect"
          THEN SQLiteDialect_IN(acc, field, values)
          ELSE BaseDialect_IN(acc, field, values))
    ELSE Plain(acc, Returned(<<FALSE_(acc.dialect)>>, "Expr"))

-----------------------------------------------------------------------------
(* Dialect: the factory presets and the descriptor *)

Presets == {"default", "default_named", "default_pyformat", "default_format",
            "sqlite", "sqlite_named"}

\* presets that all take the base dialect
Preset_BaseOnly(name) ==
    CASE name \in {"default", "sqlite"} -> QueryParams("qmark", "BaseDialect")
      [] name \in {"default_named", "sqlite_named"} ->
            QueryParams("named", "BaseDialect")
      [] name = "default_pyformat" -> QueryParams("pyformat", "BaseDialect")
      [] name = "default_format" -> QueryParams("format", "BaseDialect")

\* the static methods of Dialect
Preset(name) ==
    CASE name = "default" -> QueryParams("qmark", "BaseDialect")
      [] name = "default_named" -> QueryParams("named", "BaseDialect")
      [] name = "default_pyformat" -> QueryParams("pyformat", "BaseDialect")
      [] name = "default_format" -> QueryParams("format", "BaseDialect")
      [] name = "sqlite" -> QueryParams("qmark", "SQLiteDialect")
      [] name = "sqlite_named" -> QueryParams("named", "SQLiteDialect")

\* Two accumulator objects are alive: object 1 is held in q, object 2 in
\* q2.  What a factory hands out is an object: its state and which one it
\* is.

\* a descriptor that keeps handing out the object it made first
Dialect_get_Cached(factory) == [q |-> Preset(factory), ref |-> 1]

\* Dialect.__get__: self.factory(), an object of its own
Dialect_get(factory) == [q |-> Preset(factory), ref |-> 2]

-----------------------------------------------------------------------------
(* QExpr: an accumulator and a path (_sqlbind_value), here the atoms of the *)
(* path                                                                    *)

\* QExpr.__getattr__: the path of the new QExpr
QExpr_getattr(path, name) ==
    IF path # <<>> THEN path \o <<".", name>> ELSE <<name>>

\* QExpr.__call__: the path of the new QExpr
QExpr_call(path, value) == <<value>>

\* self.q(f'{self._sqlbind_value} <op> {{}}', other)
Compare(acc, path, op, other) == call(acc, path \o <<op, "{}">>, <<other>>)

QExpr_lt(acc, path, other) == Compare(acc, path, " < ", other)
QExpr_le(acc, path, other) == Compare(acc, path, " <= ", other)
QExpr_gt(acc, path, other) == Compare(acc, path, " > ", other)
QExpr_ge(acc, path, other) == Compare(acc, path, " >= ", other)

\* __eq__ without the test for None
QExpr_eq_BindsNone(acc, path, other) == Compare(acc, path, " = ", other)

QExpr_eq(acc, path, other) ==
    IF other = None THEN Plain(acc, Returned(path \o <<" IS NULL">>, "Expr"))
    ELSE Compare(acc, path, " = ", other)

QExpr_ne(acc, path, other) ==
    IF other = None THEN Plain(acc, Returned(path \o <<" IS NOT NULL">>, "Expr"))
    ELSE Compare(acc, path, " != ", other)

QExpr_invert(acc, path) == Plain(acc, Returned(<<"NOT ">> \o path, "Expr"))

QExpr_IN(acc, path, other) == QueryParams_IN(acc, Flat(path), other)

\* QueryParams.__getattr__: the path of the QExpr
QueryParams_getattr(name) == <<name>>

\* QExprDesc.__get__: the path of the QExpr for the '_' root
QExprDesc_get == <<>>

\* __getattr__ is only called for a name the normal lookup does not find:
\* the names QueryParams defines (those list and dict add are left out)
QueryParamsAttrs ==
    {"dialect", "_", "compile", "cond", "not_none", "not_empty", "IN", "eq",
     "neq", "in_range", "in_crange", "WHERE", "assign", "SET", "VALUES",
     "LIMIT", "OFFSET", "add", "_count"}

\* and the names a QExpr has
QExprAttrs == {"q", "_sqlbind_value", "IN"}

\* The QExpr objects made so far are a heap, a sequence of paths.

\* q.name: the heap after it
QueryParams_attr(heap, name) ==
    IF name \in QueryParamsAttrs THEN heap
    ELSE Append(heap, QueryParams_getattr(name))

\* __getattr__ that extends the path of the QExpr it is called on
Getattr_InPlace(heap, i, name) ==
    [heap EXCEPT ![i] = QExpr_getattr(heap[i], name)]

\* QExpr.__getattr__ on object i: a QExpr of its own
Getattr(heap, i, name) == Append(heap, QExpr_getattr(heap[i], name))

\* e.name for the QExpr i: the heap after it
QExpr_attr(heap, i, name) ==
    IF name \in QExprAttrs THEN heap ELSE Getattr(heap, i, name)

CompareOps == {"<", "<=", ">", ">=", "==", "!="}

Operator(op, acc, path, other) ==
    CASE op = "<" -> QExpr_lt(acc, path, other)
      [] op = "<=" -> QExpr_le(acc, path, other)
      [] op = ">" -> QExpr_gt(acc, path, other)
      [] op = ">=" -> QExpr_ge(acc, path, other)
      [] op = "==" -> QExpr_eq(acc, path, other)
      [] op = "!=" -> QExpr_ne(acc, path, other)

-----------------------------------------------------------------------------
(* Inputs *)

Scalars == {IntV(0), IntV(1), None, UNDEFINED}
PairValues == {IntV(1), None, UNDEFINED}
Cells == {IntV(0), IntV(1)}
FieldNames == {"a", "b"}
Templates == {<<"x">>, <<"x = ", "{}">>, <<"x BETWEEN ", "{}", " AND ", "{}">>}

SeqsUpTo(S, n) == UNION {[1..k -> S] : k \in 0..n}

Item(f, v) == [key |-> f, value |-> v]

\* keyword arguments: a dict of at most two fields, in either order
Kwargs(S) ==
    {<<>>} \cup {<<Item(f, v)>> : f \in FieldNames, v \in S}
    \cup {<<Item(f, v), Item(g, w)>> :
            <<f, g>> \in {<<"a", "b">>, <<"b", "a">>}, <<v, w>> \in S \X S}

\* the same, fields in the order a, b only
KwargsAB(S) == {kw \in Kwargs(S) : Len(kw) = 2 => kw[1].key = "a"}

\* the list [1, 2, .., n]
Range(n) == ListV([i \in 1..n |-> IntV(i)])

InArgs == {None, UNDEFINED} \cup {Range(n) : n \in 0..MaxInLen}

Datas ==
    {<<>>} \cup {<<r>> : r \in Kwargs(Cells) \ {<<>>}}
    \cup {<<r1, r2>> : r1 \in {<<Item("a", IntV(0)), Item("b", IntV(1))>>},
                       r2 \in {r \in Kwargs(Cells) : Len(r) = 2}}

\* the characters of the strs handed to the inline path
QuoteChars == {"'", "a", ","}

\* values sqlite_escape renders
Literals ==
    {StrV(cs) : cs \in SeqsUpTo(QuoteChars, MaxStrLen)}
    \cup {IntV(-1), FloatV("1.5")}

\* values of other types
NonLiterals == {None, UNDEFINED, BoolV(TRUE), ListV(<<>>)}

\* the list [1, 2, .., n] with x in place p
Put(n, p, x) == ListV([i \in 1..n |-> IF i = p THEN x ELSE IntV(i)])

\* the same with x and y in the first two places
Put2(n, x, y) ==
    ListV([i \in 1..n |-> IF i = 1 THEN x ELSE IF i = 2 THEN y ELSE IntV(i)])

\* lists long enough for the inline path of SQLiteDialect.IN
InlineArgs ==
    UNION {{Put(n, p, x) : p \in {1, n}, x \in Literals}
           \cup {Put2(n, x, y) : x, y \in {StrV(<<"'">>), StrV(<<",", "'">>)}}
           \cup {Put(n, p, x) : p \in 1..n, x \in NonLiterals}
           : n \in (InlineThreshold + 1)..MaxInLen}

\* bounds of a range: present, None, or left out
RangeValues == {IntV(1), StrV(<<"2020-01-01">>), None, UNDEFINED}

\* values handed to the conditional helpers and markers: falsy ones too
CondValues == Scalars \cup {StrV(<<>>), BoolV(FALSE)}

-----------------------------------------------------------------------------
(* State *)

\* the method called and its arguments
Call(op, expr, params, field, value, kwargs, data, frags) ==
    [expr |-> expr, value |-> value, params |-> params, op |-> op,
     frags |-> frags, kwargs |-> kwargs, field |-> field, data |-> data]

OnParams(op, expr, params) == Call(op, expr, params, "", None, <<>>, <<>>, <<>>)
OnPairs(op, field, value, kwargs) ==
    Call(op, <<>>, <<>>, field, value, kwargs, <<>>, <<>>)
OnFrags(op, frags) == Call(op, <<>>, <<>>, "", None, <<>>, <<>>, frags)

\* no second accumulator in use and no attribute-path expression made
Single ==
    /\ q2 = QueryParams("qmark", "BaseDialect")
    /\ ref2 = 2
    /\ bound2 = <<>>
    /\ exprs = <<>>

Init ==
    /\ Single
    /\ q \in {QueryParams(st, d) : st \in Styles, d \in Dialects}
    /\ ret = Returned(EMPTY, "EMPTY")
    /\ last = OnParams("new", <<>>, <<>>)
    /\ tokens = <<>>
    /\ bound = <<>>
    /\ clean = TRUE
    /\ exact = TRUE

\* one operation on the accumulator: r is what the method computed
Step(r, l) ==
    /\ q.count < MaxCount
    /\ q' = r.q
    /\ ret' = r.ret
    /\ last' = l
    /\ tokens' = tokens \o r.toks
    /\ bound' = IF r.ret.raised THEN bound ELSE bound \o r.vals
    /\ clean' = (clean /\ ~r.ret.raised)
    /\ exact' = (exact /\ r.exact)
    /\ UNCHANGED <<q2, ref2, bound2, exprs>>

DoTruediv ==
    \E v \in Scalars :
        Step(truediv(q, v), OnParams("truediv", <<"{}">>, <<v>>))

DoCall ==
    \E expr \in Templates, params \in SeqsUpTo(PairValues, 2) :
        Step(call(q, expr, params),
             OnParams("call", expr, params))

DoCond ==
    \E c \in {IntV(0), IntV(1)}, expr \in Templates,
       params \in SeqsUpTo({IntV(1), UNDEFINED}, 1) :
        Step(cond(q, c, expr, params),
             Call("cond", expr, params, "", c, <<>>, <<>>, <<>>))

DoNotNone ==
    \E expr \in Templates, v \in Scalars :
        Step(not_none(q, expr, v),
             OnParams("not_none", expr, <<v>>))

DoNotEmpty ==
    \E expr \in Templates, v \in Scalars :
        Step(not_empty(q, expr, v),
             OnParams("not_empty", expr, <<v>>))

DoLimit ==
    \E v \in Scalars :
        Step(LIMIT(q, v), OnParams("LIMIT", <<"LIMIT ", "{}">>, <<v>>))

DoOffset ==
    \E v \in Scalars :
        Step(OFFSET(q, v), OnParams("OFFSET", <<"OFFSET ", "{}">>, <<v>>))

DoEq ==
    \E kwargs \in KwargsAB(PairValues), f \in {"", "a"}, v \in PairValues :
        /\ f = "" => v = None
        /\ Step(eq(q, f, v, kwargs), OnPairs("eq", f, v, kwargs))

DoNeq ==
    \E kwargs \in KwargsAB(PairValues), f \in {"", "a"}, v \in PairValues :
        /\ f = "" => v = None
        /\ Step(neq(q, f, v, kwargs), OnPairs("neq", f, v, kwargs))

DoIN ==
    \E values \in InArgs :
        Step(QueryParams_IN(q, "a", values), OnPairs("IN", "a", values, <<>>))

Next ==
    \/ DoTruediv
    \/ DoCall
    \/ DoCond
    \/ DoNotNone
    \/ DoNotEmpty
    \/ DoLimit
    \/ DoOffset

Spec == Init /\ [][Next]_vars

\* eq and neq, on accumulators that other binds have used
EqNext ==
    \/ DoTruediv
    \/ DoEq
    \/ DoNeq

EqSpec == Init /\ [][EqNext]_vars

\* IN under both dialects, on accumulators that other binds have used
INNext ==
    \/ DoTruediv
    \/ DoIN

INSpec == Init /\ [][INNext]_vars

\* the SQLite presets, fresh or after one bind
InlineInit ==
    /\ Single
    /\ q \in UNION {{QueryParams(st, "SQLiteDialect"),
                     truediv(QueryParams(st, "SQLiteDialect"), IntV(1)).q} :
                    st \in {"qmark", "named"}}
    /\ ret = Returned(EMPTY, "EMPTY")
    /\ last = OnParams("new", <<>>, <<>>)
    /\ tokens = IF q.count = 0 THEN <<>>
                ELSE truediv(QueryParams(q.style, "SQLiteDialect"), IntV(1)).toks
    /\ bound = IF q.count = 0 THEN <<>> ELSE <<IntV(1)>>
    /\ clean = TRUE
    /\ exact = TRUE

DoINInline ==
    \E values \in InlineArgs :
        Step(QueryParams_IN(q, "a", values), OnPairs("IN", "a", values, <<>>))

InlineNext == DoINInline

\* IN with more values than the SQLite dialect binds
InlineSpec == InlineInit /\ [][InlineNext]_vars

\* one comparison of field f with v by one of the routes
Comparison(op, cmp, f, v) ==
    Call(op, <<f, cmp, "{}">>, <<v>>, f, v, <<>>, <<>>, <<>>)

DoQExprEq ==
    \E f \in FieldNames, v \in Scalars :
        Step(QExpr_eq(q, QExpr_getattr(<<>>, f), v),
             Comparison("__eq__", " = ", f, v))

DoQExprNe ==
    \E f \in FieldNames, v \in Scalars :
        Step(QExpr_ne(q, QExpr_getattr(<<>>, f), v),
             Comparison("__ne__", " != ", f, v))

DoCallEq ==
    \E f \in FieldNames, v \in Scalars :
        Step(call(q, <<f, " = ", "{}">>, <<v>>), Comparison("call", " = ", f, v))

DoCallNe ==
    \E f \in FieldNames, v \in Scalars :
        Step(call(q, <<f, " != ", "{}">>, <<v>>),
             Comparison("call", " != ", f, v))

DoEqField ==
    \E f \in FieldNames, v \in Scalars :
        Step(eq(q, f, v, <<>>), Comparison("eq", " = ", f, v))

DoNeqField ==
    \E f \in FieldNames, v \in Scalars :
        Step(neq(q, f, v, <<>>), Comparison("neq", " != ", f, v))

RouteNext ==
    \/ DoQExprEq
    \/ DoQExprNe
    \/ DoCallEq
    \/ DoCallNe
    \/ DoEqField
    \/ DoNeqField

\* the three ways to write a comparison of a field with a value
RouteSpec == Init /\ [][RouteNext]_vars

DoInRange ==
    \E f \in {"a", "d"}, left \in RangeValues, right \in RangeValues :
        Step(in_range(q, f, left, right),
             Call("in_range", <<>>, <<left, right>>, f, None, <<>>, <<>>, <<>>))

DoInCRange ==
    \E f \in {"a", "d"}, left \in RangeValues, right \in RangeValues :
        Step(in_crange(q, f, left, right),
             Call("in_crange", <<>>, <<left, right>>, f, None, <<>>, <<>>, <<>>))

RangeNext ==
    \/ DoInRange
    \/ DoInCRange

\* half-open and closed ranges
RangeSpec == Init /\ [][RangeNext]_vars

DoNotNoneFalsy ==
    \E expr \in {<<"x = ", "{}">>}, v \in CondValues :
        Step(not_none(q, expr, v), OnParams("not_none", expr, <<v>>))

DoNotEmptyFalsy ==
    \E expr \in {<<"x = ", "{}">>}, v \in CondValues :
        Step(not_empty(q, expr, v), OnParams("not_empty", expr, <<v>>))

CondNext ==
    \/ DoCond
    \/ DoNotNoneFalsy
    \/ DoNotEmptyFalsy

\* the conditional helpers, handed falsy values of every kind
CondSpec == Init /\ [][CondNext]_vars

\* a template call on marker / v: the marker, v and what the marker gave
Marked(op, c, v, out) ==
    Call(op, <<"x = ", "{}">>, <<out>>, "", v, <<Item("cond", c)>>, <<>>, <<>>)

DoMarkNotNone ==
    \E v \in CondValues :
        LET out == NotNone_truediv(v)
        IN Step(call(q, <<"x = ", "{}">>, <<out>>),
                Marked("not_none/", None, v, out))

DoMarkNotEmpty ==
    \E v \in CondValues :
        LET out == NotEmpty_truediv(v)
        IN Step(call(q, <<"x = ", "{}">>, <<out>>),
                Marked("not_empty/", None, v, out))

DoMarkCond ==
    \E c \in CondValues, v \in CondValues :
        LET out == cond_truediv(c, v)
        IN Step(call(q, <<"x = ", "{}">>, <<out>>),
                Marked("cond/", c, v, out))

MarkerNext ==
    \/ DoMarkNotNone
    \/ DoMarkNotEmpty
    \/ DoMarkCond

\* template calls on values that went through a conditional marker
MarkerSpec == Init /\ [][MarkerNext]_vars

DoAssign ==
    \E kwargs \in Kwargs(PairValues) :
        Step(assign(q, kwargs), OnPairs("assign", "", None, kwargs))

DoQueryParamsSET ==
    \E kwargs \in Kwargs(PairValues) :
        Step(QueryParams_SET(q, kwargs), OnPairs("SET", "", None, kwargs))

AssignNext ==
    \/ DoAssign
    \/ DoQueryParamsSET

\* assignments and the SET clause made of them
AssignSpec == Init /\ [][AssignNext]_vars

DoValues ==
    \E data \in Datas, kwargs \in Kwargs(Cells) :
        /\ data # <<>> => kwargs = <<>>
        /\ Step(VALUES(q, data, kwargs),
                Call("VALUES", <<>>, <<>>, "", None, kwargs, data, <<>>))

ValuesNext == DoValues

\* the column list and VALUES groups of an INSERT
ValuesSpec == Init /\ [][ValuesNext]_vars

\* q.WHERE(*cond, **kwargs): the condition, when there is one, is the
\* fragment the template call before it returned
DoQueryParamsWHERE ==
    \E kwargs \in KwargsAB(PairValues), use \in BOOLEAN :
        /\ use => (last.op = "call" /\ ~ret.raised)
        /\ LET conds == IF use THEN <<ret.text>> ELSE <<>>
           IN Step(QueryParams_WHERE(q, conds, kwargs),
                   Call("WHERE", <<>>, <<>>, "", None, kwargs, <<>>, conds))

WhereNext ==
    \/ DoCall
    \/ DoQueryParamsWHERE

WhereSpec == Init /\ [][WhereNext]_vars

\* Dialect.sqlite() or Dialect.sqlite_named(), new
SqliteInit ==
    /\ Single
    /\ q \in {Preset("sqlite"), Preset("sqlite_named")}
    /\ ret = Returned(EMPTY, "EMPTY")
    /\ last = OnParams("new", <<>>, <<>>)
    /\ tokens = <<>>
    /\ bound = <<>>
    /\ clean = TRUE
    /\ exact = TRUE

SqliteNext ==
    \/ DoTruediv
    \/ DoIN

\* IN on the accumulators of the two SQLite presets
SqliteSpec == SqliteInit /\ [][SqliteNext]_vars

-----------------------------------------------------------------------------
(* Two accumulators side by side: the first name holds object 1, the second *)
(* name the object ref2                                                    *)

TwoValues == {IntV(10), IntV(20)}

TwoInit ==
    /\ q \in {Preset(p) : p \in Presets}
    /\ q2 \in {Preset(p) : p \in Presets}
    /\ ref2 = 2
    /\ bound2 = <<>>
    /\ exprs = <<>>
    /\ ret = Returned(EMPTY, "EMPTY")
    /\ last = OnParams("new", <<>>, <<>>)
    /\ tokens = <<>>
    /\ bound = <<>>
    /\ clean = TRUE
    /\ exact = TRUE

\* the accumulator the second name refers to
Second == IF ref2 = 1 THEN q ELSE q2

\* q1 / v
DoBindFirst ==
    \E v \in TwoValues :
        Step(truediv(q, v), OnParams("truediv", <<"{}">>, <<v>>))

\* q2 / v
DoBindSecond ==
    \E v \in TwoValues :
        LET r == truediv(Second, v) IN
        /\ Second.count < MaxCount
        /\ IF ref2 = 1 THEN q' = r.q /\ q2' = q2
                        ELSE q2' = r.q /\ q' = q
        /\ bound2' = bound2 \o r.vals
        /\ ret' = r.ret
        /\ last' = OnParams("truediv2", <<"{}">>, <<v>>)
        /\ UNCHANGED <<ref2, tokens, bound, clean, exact, exprs>>

\* the second name takes what a factory hands out
Take(r, l) ==
    /\ ref2' = r.ref
    /\ IF r.ref = 2 THEN q2' = r.q ELSE q2' = q2
    /\ bound2' = <<>>
    /\ ret' = Returned(EMPTY, "EMPTY")
    /\ last' = l
    /\ UNCHANGED <<q, tokens, bound, clean, exact, exprs>>

\* q2 = Dialect.default() and the other presets
DoFactory ==
    \E p \in Presets :
        Take([q |-> Preset(p), ref |-> 2], OnPairs("factory", p, None, <<>>))

\* q2 = Q.p where p = Dialect(factory) is a class attribute
DoGet ==
    \E p \in Presets :
        Take(Dialect_get(p), OnPairs("__get__", p, None, <<>>))

TwoNext ==
    \/ DoBindFirst
    \/ DoBindSecond
    \/ DoFactory
    \/ DoGet

TwoSpec == TwoInit /\ [][TwoNext]_vars

-----------------------------------------------------------------------------
(* Attribute-path expressions on one accumulator *)

PathNames == {"users", "name", "q", "IN"}
PathLiterals == {"LOWER(name)"}

PathInit ==
    /\ q \in {Preset("default"), Preset("sqlite_named")}
    /\ q2 = QueryParams("qmark", "BaseDialect")
    /\ ref2 = 2
    /\ bound2 = <<>>
    /\ exprs = <<>>
    /\ ret = Returned(EMPTY, "EMPTY")
    /\ last = OnParams("new", <<>>, <<>>)
    /\ tokens = <<>>
    /\ bound = <<>>
    /\ clean = TRUE
    /\ exact = TRUE

\* an attribute access or a call on the '_' root: heap is the heap after
\* it, longer by the QExpr made if one was made
PathStep(heap, l) ==
    /\ Len(exprs) < MaxExprs
    /\ exprs' = heap
    /\ ret' = IF heap = exprs THEN Returned(<<>>, "attribute")
               ELSE Returned(heap[Len(heap)], "QExpr")
    /\ last' = l
    /\ UNCHANGED <<q, tokens, bound, clean, exact, q2, ref2, bound2>>

\* q.name
DoAttr ==
    \E name \in PathNames :
        PathStep(QueryParams_attr(exprs, name), OnPairs("q.attr", name, None, <<>>))

\* q._
DoRoot ==
    PathStep(Append(exprs, QExprDesc_get), OnPairs("q._", "", None, <<>>))

\* e.name for a QExpr e
DoExprAttr ==
    \E i \in 1..Len(exprs), name \in PathNames :
        PathStep(QExpr_attr(exprs, i, name), OnPairs("e.attr", name, IntV(i), <<>>))

\* e('literal') for a QExpr e
DoExprCall ==
    \E i \in 1..Len(exprs), literal \in PathLiterals :
        PathStep(Append(exprs, QExpr_call(exprs[i], literal)),
                 OnPairs("e(literal)", literal, IntV(i), <<>>))

\* e < v and the other comparisons
DoExprCompare ==
    \E i \in 1..Len(exprs), op \in CompareOps, v \in {IntV(1), None} :
        Step(Operator(op, q, exprs[i], v),
             Call(op, exprs[i], <<v>>, "", v, <<>>, <<>>, <<>>))

\* e.IN(values)
DoExprIN ==
    \E i \in 1..Len(exprs), values \in {Range(1), ListV(<<>>), None} :
        Step(QExpr_IN(q, exprs[i], values),
             Call("QExpr.IN", exprs[i], <<>>, "", values, <<>>, <<>>, <<>>))

\* ~e
DoExprInvert ==
    \E i \in 1..Len(exprs) :
        Step(QExpr_invert(q, exprs[i]),
             Call("QExpr.__invert__", exprs[i], <<>>, "", None, <<>>, <<>>, <<>>))

PathNext ==
    \/ DoAttr
    \/ DoRoot
    \/ DoExprAttr
    \/ DoExprCall
    \/ DoExprCompare
    \/ DoExprIN
    \/ DoExprInvert

PathSpec == PathInit /\ [][PathNext]_vars

-----------------------------------------------------------------------------
(* The fragment algebra on its own: pure functions applied to fragments,   *)
(* next to an accumulator that has bound one value                         *)

FragPool == {EMPTY, <<"x">>, <<"y = ", "?">>}

FragInit ==
    /\ Single
    /\ q \in {truediv(QueryParams(st, "BaseDialect"), IntV(1)).q :
                st \in {"qmark", "named"}}
    /\ ret = Returned(EMPTY, "EMPTY")
    /\ last = OnParams("new", <<>>, <<>>)
    /\ tokens = truediv(QueryParams(q.style, "BaseDialect"), IntV(1)).toks
    /\ bound = <<IntV(1)>>
    /\ clean = TRUE
    /\ exact = TRUE

FragStep(r, l) ==
    /\ ret' = r
    /\ last' = l
    /\ UNCHANGED <<q, tokens, bound, clean, exact, q2, ref2, bound2, exprs>>

Builder(op, fragments) ==
    CASE op = "AND" -> AND(fragments)
      [] op = "OR" -> OR(fragments)
      [] op = "AND_" -> AND_(fragments)
      [] op = "OR_" -> OR_(fragments)
      [] op = "WHERE" -> WHERE(fragments)
      [] op = "WITH" -> WITH_(fragments)
      [] op = "SET" -> SET(fragments)
      [] op = "FIELDS" -> FIELDS(fragments)
      [] op = "GROUP_BY" -> GROUP_BY(fragments)
      [] op = "ORDER_BY" -> ORDER_BY(fragments)

DoBuilder(op) ==
    \E fragments \in SeqsUpTo(FragPool, MaxFrags) :
        FragStep(Builder(op, fragments), OnFrags(op, fragments))

DoAND == DoBuilder("AND")
DoOR == DoBuilder("OR")
DoAND_ == DoBuilder("AND_")
DoOR_ == DoBuilder("OR_")
DoWHERE == DoBuilder("WHERE")
DoWITH == DoBuilder("WITH")
DoSET == DoBuilder("SET")
DoFIELDS == DoBuilder("FIELDS")
DoGROUP_BY == DoBuilder("GROUP_BY")
DoORDER_BY == DoBuilder("ORDER_BY")

DoAnd ==
    \E self \in FragPool, other \in FragPool :
        FragStep(and_(self, other), OnFrags("__and__", <<self, other>>))

DoOr ==
    \E self \in FragPool, other \in FragPool :
        FragStep(or_(self, other), OnFrags("__or__", <<self, other>>))

DoInvert ==
    \E self \in FragPool :
        FragStep(invert(self), OnFrags("__invert__", <<self>>))

FragNext ==
    \/ DoAND
    \/ DoOR
    \/ DoAND_
    \/ DoOR_
    \/ DoWHERE
    \/ DoWITH
    \/ DoSET
    \/ DoFIELDS
    \/ DoGROUP_BY
    \/ DoORDER_BY
    \/ DoAnd
    \/ DoOr
    \/ DoInvert

FragSpec == FragInit /\ [][FragNext]_vars

-----------------------------------------------------------------------------
(* What the specification says, in terms of the state *)

\* the parameters an accumulator holds, in insertion order
StoredValues(acc) ==
    IF acc.style \in ListStyles THEN acc.list
    ELSE [i \in 1..Len(acc.dict) |-> acc.dict[i].value]

\* the token the specification gives the n-th bound value (n from 1)
Placeholder(style, n) ==
    CASE style = "qmark" -> "?"
      [] style = "format" -> "%s"
      [] style = "numeric" -> ":" \o ToString(n)
      [] style = "named" -> ":p" \o ToString(n - 1)
      [] style = "pyformat" -> "%(p" \o ToString(n - 1) \o ")s"

Survives(f) == Len(f) > 0

Survivors(fragments) == SelectSeq(fragments, Survives)

\* fragments written one after the other with sep between neighbours
RECURSIVE Interleave(_, _)
Interleave(sep, fragments) ==
    LET n == Len(fragments) IN
    IF n = 0 THEN <<>>
    ELSE IF n = 1 THEN fragments[1]
    ELSE Interleave(sep, SubSeq(fragments, 1, n - 1)) \o <<sep>> \o fragments[n]

\* the AND / OR rule: nothing, the one survivor, or the parenthesised join
Combined(sep, fragments) ==
    LET k == Survivors(fragments) IN
    IF Len(k) = 0 THEN <<>>
    ELSE IF Len(k) = 1 THEN k[1]
    ELSE <<"(">> \o Interleave(sep, k) \o <<")">>

\* the token refers to the i-th stored value: by position for the list
\* styles, by the key of the i-th entry for the dict styles
RefersTo(tok, i) ==
    /\ i <= Len(StoredValues(q))
    /\ tok = CASE q.style = "named" -> ":" \o q.dict[i].key
                [] q.style = "pyformat" -> "%(" \o q.dict[i].key \o ")s"
                [] OTHER -> Placeholder(q.style, i)

\* C1: after successful, non-suppressed bind calls only, the stored
\* parameters are the values the calls supplied, as many and in that order,
\* and the i-th placeholder token emitted refers to the i-th stored value:
\* by position for the list styles, by its generated key for the dict styles.
C1_TokensMatchStorage ==
    clean =>
        /\ Len(StoredValues(q)) = Len(bound)
        /\ StoredValues(q) = bound
        /\ \A i \in 1..Len(tokens) : RefersTo(tokens[i].tok, i)

\* C1 as amended: the same, for calls whose template has as many '{}'
\* fields as the call supplies values; then there is one token per stored
\* value as well.
C1_TokensMatchStorageWhenExact ==
    exact =>
        /\ Len(StoredValues(q)) = Len(bound)
        /\ StoredValues(q) = bound
        /\ Len(tokens) = Len(bound)
        /\ \A i \in 1..Len(tokens) : RefersTo(tokens[i].tok, i)

C1_Witness ==
    /\ exact
    /\ q.style = "numeric"
    /\ last.op = "call"
    /\ Len(last.params) = 2
    /\ q.count = 3
    /\ ret.text = <<"x BETWEEN ", ":2", " AND ", ":3">>

\* C2: whatever bind operations ran and whatever they were handed, the
\* UNDEFINED sentinel is never among the stored parameters.
C2_UndefinedNeverStored ==
    \A i \in 1..Len(StoredValues(q)) : StoredValues(q)[i] # UNDEFINED

\* C3: a template call with UNDEFINED among its values returns the EMPTY
\* object and leaves the accumulator (storage and counter) and the emitted
\* tokens as they were, so the next bind gets the number or key it would
\* have got without the call.
C3_CallAllOrNothing ==
    [][(last'.op = "call" /\ HasUndefined(last'.params)) =>
          /\ ret' = Returned(EMPTY, "EMPTY")
          /\ q' = q
          /\ tokens' = tokens]_vars

C3_Witness ==
    /\ last.op = "call"
    /\ last.params = <<IntV(1), UNDEFINED>>
    /\ NumFields(last.expr) = 2
    /\ q.count = 1
    /\ ret.obj = "EMPTY"

\* C4: over any sequence of bind calls the tokens of the numeric style are
\* :1, :2, :3, .. and those of the named and pyformat styles are made of
\* p0, p1, p2, .., one step at a time, so no token repeats and every stored
\* value keeps its own mapping entry.
C4_ConsecutiveNumbering ==
    q.style \in {"numeric", "named", "pyformat"} =>
        /\ \A i \in 1..Len(tokens) : tokens[i].tok = Placeholder(q.style, i)
        /\ \A i, j \in 1..Len(tokens) : i # j => tokens[i].tok # tokens[j].tok
        /\ Len(StoredValues(q)) = q.count

\* C4 as amended: the number in a token is the place of its value in the
\* storage (:n for the n-th stored value, p<n-1> for its key), so along the
\* tokens the numbers grow strictly, by one when every template had as
\* many fields as values; no token repeats; every value handed to a bind
\* has its own entry, under the key p<n-1> in the dict styles.
C4_NumberingFollowsStorage ==
    q.style \in {"numeric", "named", "pyformat"} =>
        /\ \A i \in 1..Len(tokens) :
              tokens[i].tok = Placeholder(q.style, tokens[i].slot)
        /\ \A i, j \in 1..Len(tokens) :
              i < j => /\ tokens[i].slot < tokens[j].slot
                       /\ tokens[i].tok # tokens[j].tok
        /\ exact => \A i \in 1..Len(tokens) : tokens[i].slot = i
        /\ Len(StoredValues(q)) = q.count
        /\ q.style # "numeric" =>
              \A i \in 1..Len(q.dict) : q.dict[i].key = "p" \o ToString(i - 1)

C4_Witness ==
    /\ q.style = "pyformat"
    /\ Len(tokens) = 2
    /\ tokens[1].tok = "%(p1)s"
    /\ tokens[2].tok = "%(p2)s"
    /\ Len(q.dict) = 3

\* C5: AND and OR (and & and |) drop the empty fragments, then give EMPTY
\* for no survivor, the survivor itself, without parentheses, for one, and
\* the survivors joined by ' AND ' / ' OR ' in argument order inside one pair
\* of parentheses for more; so EMPTY is an identity element of both.
C5_AndOrRule ==
    /\ last.op \in {"AND", "__and__"} =>
          ret.text = Combined(" AND ", last.frags)
    /\ last.op \in {"OR", "__or__"} =>
          ret.text = Combined(" OR ", last.frags)
    /\ last.op \in {"AND", "__and__", "OR", "__or__"} =>
          /\ Survivors(last.frags) = <<>> => ret = Returned(EMPTY, "EMPTY")
          /\ \A x \in FragPool :
                last.frags \in {<<x, EMPTY>>, <<EMPTY, x>>} => ret.text = x

C5_Witness ==
    /\ last.op = "AND"
    /\ Len(last.frags) = 3
    /\ last.frags[2] = EMPTY
    /\ Len(Survivors(last.frags)) = 2
    /\ last.frags[1] # last.frags[3]
    /\ Head(ret.text) = "("

\* C6: ~ on an empty fragment gives EMPTY, never 'NOT '; on any other
\* fragment it gives 'NOT ' followed by the fragment; the accumulator is
\* not touched.
C6_Invert ==
    [][last'.op = "__invert__" =>
          /\ q' = q
          /\ ret' = IF last'.frags[1] = EMPTY
                    THEN Returned(EMPTY, "EMPTY")
                    ELSE Returned(<<"NOT ">> \o last'.frags[1], "Expr")]_vars

C6_Witness ==
    /\ last.op = "__invert__"
    /\ last.frags = <<EMPTY>>
    /\ ret.obj = "EMPTY"
    /\ q.count = 1

ClauseOps ==
    {"WHERE", "WITH", "SET", "GROUP_BY", "ORDER_BY", "AND_", "OR_", "FIELDS"}

Keyword(op) ==
    CASE op = "WHERE" -> <<"WHERE ">>
      [] op = "WITH" -> <<"WITH ">>
      [] op = "SET" -> <<"SET ">>
      [] op = "GROUP_BY" -> <<"GROUP BY ">>
      [] op = "ORDER_BY" -> <<"ORDER BY ">>
      [] op = "AND_" -> <<"AND ">>
      [] op = "OR_" -> <<"OR ">>
      [] op = "FIELDS" -> <<>>

Separator(op) ==
    CASE op \in {"WHERE", "AND_"} -> " AND "
      [] op = "OR_" -> " OR "
      [] OTHER -> ", "

\* C7: a clause builder gives EMPTY when it has no non-empty argument, else
\* its keyword and one space, then the non-empty arguments joined by the
\* clause separator in argument order, without parentheses; FIELDS has no
\* keyword.
C7_ClauseBuilders ==
    last.op \in ClauseOps =>
        IF Survivors(last.frags) = <<>>
        THEN ret = Returned(EMPTY, "EMPTY")
        ELSE ret.text = Keyword(last.op)
                        \o Interleave(Separator(last.op), Survivors(last.frags))

C7_Witness ==
    /\ last.op = "GROUP_BY"
    /\ Len(last.frags) = 3
    /\ last.frags[1] = EMPTY
    /\ Len(Survivors(last.frags)) = 2
    /\ ret.text = <<"GROUP BY ">> \o last.frags[2] \o <<", ">> \o last.frags[3]

\* the fragments the specification gives eq / neq for pairs, when n values
\* are bound already
RECURSIVE Rendered(_, _, _, _, _)
Rendered(style, n, pairs, isNull, op) ==
    IF pairs = <<>> THEN <<>>
    ELSE LET p == Head(pairs) IN
         IF p.value = UNDEFINED
         THEN Rendered(style, n, Tail(pairs), isNull, op)
         ELSE IF p.value = None
         THEN <<(<<p.key, isNull>>)>> \o Rendered(style, n, Tail(pairs), isNull, op)
         ELSE <<(<<p.key, op, Placeholder(style, n + 1)>>)>>
              \o Rendered(style, n + 1, Tail(pairs), isNull, op)

IsBound(p) == p.value # UNDEFINED /\ p.value # None

BoundValues(pairs) ==
    LET b == SelectSeq(pairs, IsBound) IN [i \in 1..Len(b) |-> b[i].value]

\* C8: eq / neq drop a pair whose value is UNDEFINED, render a None value as
\* 'field IS NULL' / 'field IS NOT NULL' without binding, render any other
\* pair as 'field = <placeholder>' / 'field != <placeholder>' and store just
\* that value; the pairs are combined by the AND rule, so all-UNDEFINED
\* gives EMPTY with the accumulator unchanged, and WHERE around the result
\* adds 'WHERE ' only when something is left.
C8_EqNeq ==
    [][last'.op \in {"eq", "neq"} =>
          LET pairs == WithPositional(last'.field, last'.value, last'.kwargs)
              frs == IF last'.op = "eq"
                     THEN Rendered(q.style, q.count, pairs, " IS NULL", " = ")
                     ELSE Rendered(q.style, q.count, pairs, " IS NOT NULL", " != ")
          IN /\ ret'.text = Combined(" AND ", frs)
             /\ StoredValues(q') = StoredValues(q) \o BoundValues(pairs)
             /\ q'.count = q.count + Len(BoundValues(pairs))
             /\ (\A i \in 1..Len(pairs) : pairs[i].value = UNDEFINED) =>
                    (ret' = Returned(EMPTY, "EMPTY") /\ q' = q)
             /\ WHERE(<<ret'.text>>).text =
                    IF frs = <<>> THEN EMPTY ELSE <<"WHERE ">> \o ret'.text]_vars

\* eq(a=1, b=None) on a qmark accumulator: '(a = ? AND b IS NULL)', [1]
C8_Witness ==
    /\ last.op = "eq"
    /\ last.field = ""
    /\ last.kwargs = <<Item("a", IntV(1)), Item("b", None)>>
    /\ q.style = "qmark"
    /\ ret.text = <<"(", "a", " = ", "?", " AND ", "b", " IS NULL", ")">>
    /\ q.list = <<IntV(1)>>

\* C9: IN gives EMPTY for None and for UNDEFINED and the FALSE literal of
\* the dialect ('FALSE', SQLite '0') for an empty list, the accumulator
\* unchanged in both cases; under the base dialect a non-empty list is
\* rendered as 'field IN <one placeholder>' and stored whole as one
\* parameter.
C9_IN ==
    [][last'.op = "IN" =>
          LET v == last'.value IN
          /\ (v = None \/ v = UNDEFINED) =>
                (ret' = Returned(EMPTY, "EMPTY") /\ q' = q)
          /\ (v.kind = "list" /\ Len(v.s) = 0) =>
                /\ ret'.text = <<IF q.dialect = "SQLiteDialect" THEN "0"
                                                                ELSE "FALSE">>
                /\ q' = q
          /\ (v.kind = "list" /\ Len(v.s) > 0 /\ q.dialect = "BaseDialect") =>
                /\ ret'.text = <<last'.field, " IN ",
                                 Placeholder(q.style, q.count + 1)>>
                /\ StoredValues(q') = Append(StoredValues(q), v)
                /\ q'.count = q.count + 1]_vars

C9_Witness ==
    /\ last.op = "IN"
    /\ last.value = ListV(<<>>)
    /\ q.dialect = "SQLiteDialect"
    /\ ret.text = <<"0">>
    /\ q.count = 1

\* C10: under the SQLite dialect IN with 1 to 10 values renders
\* 'field IN (' + one placeholder per value, separated by ',' + ')' and
\* stores the values in order; with 11 or more values it renders the values
\* as literals, emits no placeholder and leaves the accumulator unchanged.
C10_SQLiteIN ==
    [][(last'.op = "IN" /\ q.dialect = "SQLiteDialect"
        /\ last'.value.kind = "list" /\ Len(last'.value.s) > 0) =>
          LET vs == last'.value.s
              n == Len(vs)
          IN /\ n <= 10 =>
                  /\ ret'.text =
                        <<last'.field, " IN (">>
                        \o Interleave(",", [i \in 1..n |->
                                <<Placeholder(q.style, q.count + i)>>])
                        \o <<")">>
                  /\ StoredValues(q') = StoredValues(q) \o vs
                  /\ q'.count = q.count + n
             /\ n >= 11 =>
                  /\ ret'.text =
                        <<last'.field, " IN (">>
                        \o Interleave(",", [i \in 1..n |-> <<ToString(vs[i].n)>>])
                        \o <<")">>
                  /\ q' = q
                  /\ tokens' = tokens]_vars

C10_Witness ==
    /\ last.op = "IN"
    /\ q.dialect = "SQLiteDialect"
    /\ Len(last.value.s) = 10
    /\ Len(StoredValues(q)) = 11
    /\ q.count = 11


\* a str with every single quote written twice
RECURSIVE Doubled(_)
Doubled(cs) ==
    IF cs = <<>> THEN <<>>
    ELSE IF Head(cs) = "'" THEN <<"'", "'">> \o Doubled(Tail(cs))
    ELSE <<Head(cs)>> \o Doubled(Tail(cs))

\* the literal the specification gives a value
Literal(v) ==
    IF v.kind = "str" THEN <<"'">> \o Doubled(v.s) \o <<"'">>
    ELSE IF v.kind = "int" THEN <<ToString(v.n)>>
    ELSE v.s

\* SQL quoting rules on the text after an opening quote: a doubled quote
\* is one quote, a lone quote ends the literal
RECURSIVE SqlString(_)
SqlString(cs) ==
    IF cs = <<>> THEN [rest |-> <<>>, chars |-> <<>>, closed |-> FALSE]
    ELSE IF Head(cs) = "'"
    THEN IF Len(cs) >= 2 /\ cs[2] = "'"
         THEN LET r == SqlString(Tail(Tail(cs)))
              IN [rest |-> r.rest, chars |-> <<"'">> \o r.chars,
                  closed |-> r.closed]
         ELSE [rest |-> Tail(cs), chars |-> <<>>, closed |-> TRUE]
    ELSE LET r == SqlString(Tail(cs))
         IN [rest |-> r.rest, chars |-> <<Head(cs)>> \o r.chars,
             closed |-> r.closed]

\* the first literal of a text: a string literal or one numeric token
SqlLiteral(cs) ==
    IF Head(cs) = "'"
    THEN LET d == SqlString(Tail(cs))
         IN [rest |-> d.rest,
             item |-> IF d.closed THEN <<"str", d.chars>> ELSE <<"error", <<>>>>]
    ELSE [rest |-> Tail(cs), item |-> <<"num", <<Head(cs)>>>>]

\* a value list read by those rules up to its closing parenthesis
RECURSIVE SqlList(_)
SqlList(cs) ==
    IF cs = <<>> THEN << <<"error", <<>>>> >>
    ELSE LET l == SqlLiteral(cs) IN
         IF l.rest = <<")">> THEN <<l.item>>
         ELSE IF l.rest # <<>> /\ Head(l.rest) = ","
         THEN <<l.item>> \o SqlList(Tail(l.rest))
         ELSE <<l.item, <<"error", <<>>>> >>

\* what a reader of the SQL text has to find for a value
Read(v) == IF v.kind = "str" THEN <<"str", v.s>> ELSE <<"num", Literal(v)>>

InlineCall ==
    /\ last.op = "IN"
    /\ q.dialect = "SQLiteDialect"
    /\ last.value.kind = "list"
    /\ Len(last.value.s) > 10

\* C11: on the SQLite inline path a str is rendered as a quote, the str with
\* every quote doubled, and a quote, so that reading the literal by SQL
\* quoting rules consumes all of it and gives the str back; ints and floats
\* are rendered by str(); the literals are separated by ',' in input order.
C11_InlineLiteralsDecode ==
    (InlineCall /\ ~ret.raised) =>
        LET vs == last.value.s
            n == Len(vs)
            lits == [i \in 1..n |-> Literal(vs[i])]
        IN /\ ret.text = <<last.field, " IN (">> \o Interleave(",", lits)
                          \o <<")">>
           /\ \A i \in 1..n :
                 vs[i].kind = "str" =>
                    LET d == SqlString(Tail(lits[i]))
                    IN d.closed /\ d.rest = <<>> /\ d.chars = vs[i].s
           /\ SqlList(SubSeq(ret.text, 3, Len(ret.text)))
                 = [i \in 1..n |-> Read(vs[i])]

\* IN('a', ["','", "'", 3, .., 11]) under Dialect.sqlite()
C11_Witness ==
    /\ InlineCall
    /\ ~ret.raised
    /\ last.value.s[1] = StrV(<<",", "'">>)
    /\ last.value.s[2] = StrV(<<"'">>)
    /\ SubSeq(ret.text, 3, 12) = <<"'", ",", "'", "'", "'", ",",
                                    "'", "'", "'", "'">>

\* C12: when a value of the inline path is not exactly a str, an int or a
\* float, IN raises instead of returning a fragment, at whichever place of
\* the list the value is, and the accumulator is as it was before the call.
C12_InlineRejectsOtherTypes ==
    [][(last'.op = "IN" /\ q.dialect = "SQLiteDialect"
        /\ last'.value.kind = "list" /\ Len(last'.value.s) > 10
        /\ \E i \in 1..Len(last'.value.s) :
              last'.value.s[i].kind \notin {"str", "int", "float"}) =>
          /\ ret'.raised
          /\ ret'.obj = "ValueError"
          /\ q' = q
          /\ tokens' = tokens
          /\ bound' = bound]_vars

\* a bool in the last place, after one bind
C12_Witness ==
    /\ InlineCall
    /\ last.value.s[Len(last.value.s)] = BoolV(TRUE)
    /\ ret.raised
    /\ q.count = 1
    /\ Len(StoredValues(q)) = 1


\* what the three routes give for f <cmp> v on the accumulator acc
Routes(acc, cmp, f, v) ==
    IF cmp = " = "
    THEN <<QExpr_eq(acc, <<f>>, v), call(acc, <<f, " = ", "{}">>, <<v>>),
           eq(acc, f, v, <<>>)>>
    ELSE <<QExpr_ne(acc, <<f>>, v), call(acc, <<f, " != ", "{}">>, <<v>>),
           neq(acc, f, v, <<>>)>>

IsComparison(l) == l.op \in {"__eq__", "__ne__", "call", "eq", "neq"}

\* C13: for every field and every value, None and UNDEFINED too, the
\* operator q.f == v, the template call q('f = {}', v) and q.eq('f', v)
\* return the same text and leave the accumulator in the same state when
\* started from the same state; likewise for != and neq.
C13_RoutesAgree ==
    [][IsComparison(last') =>
          LET rs == Routes(q, last'.expr[2], last'.field, last'.value)
          IN \A i \in 1..3 :
                /\ ret'.text = rs[i].ret.text
                /\ q' = rs[i].q]_vars

\* C13 as amended: the three routes agree for every value but None; for
\* None the operator and eq / neq agree, give 'f IS NULL' / 'f IS NOT NULL'
\* and store nothing, and the template call binds None like any value.
C13_RoutesAgreeButForNone ==
    [][IsComparison(last') =>
          LET cmp == last'.expr[2]
              f == last'.field
              v == last'.value
              rs == Routes(q, cmp, f, v)
              mine == IF last'.op \in {"__eq__", "__ne__"} THEN 1
                      ELSE IF last'.op = "call" THEN 2 ELSE 3
          IN /\ ret'.text = rs[mine].ret.text
             /\ q' = rs[mine].q
             /\ v # None =>
                   \A i \in 1..3 :
                      /\ ret'.text = rs[i].ret.text
                      /\ q' = rs[i].q
             /\ v = None =>
                   /\ \A i \in {1, 3} :
                         /\ rs[i].ret.text =
                               <<f, IF cmp = " = " THEN " IS NULL"
                                                   ELSE " IS NOT NULL">>
                         /\ rs[i].q = q
                   /\ rs[2].ret.text =
                         <<f, cmp, Placeholder(q.style, q.count + 1)>>
                   /\ StoredValues(rs[2].q) = Append(StoredValues(q), None)
                   /\ rs[2].q.count = q.count + 1]_vars

\* q.a == 1 after one bind, numeric style
C13_Witness ==
    /\ last.op = "__eq__"
    /\ last.value = IntV(1)
    /\ q.style = "numeric"
    /\ q.count = 2
    /\ ret.text = <<"a", " = ", ":2">>


\* C14: in_range and in_crange bind each bound on its own: an UNDEFINED
\* bound is left out and stores nothing; with both bounds the result is
\* '(field >= <p> AND field < <p>)' ('<=' for in_crange) with left stored
\* before right; with one bound it is that comparison alone, without
\* parentheses; with none it is EMPTY and the accumulator is unchanged.
C14_Ranges ==
    [][last'.op \in {"in_range", "in_crange"} =>
          LET f == last'.field
              l == last'.params[1]
              r == last'.params[2]
              up == IF last'.op = "in_range" THEN " < " ELSE " <= "
              nl == IF l # UNDEFINED THEN 1 ELSE 0
              lo == f \o " >= " \o Placeholder(q.style, q.count + 1)
              hi == f \o up \o Placeholder(q.style, q.count + nl + 1)
              kept == SelectSeq(<<l, r>>, LAMBDA v : v # UNDEFINED)
          IN /\ StoredValues(q') = StoredValues(q) \o kept
             /\ q'.count = q.count + Len(kept)
             /\ Flat(ret'.text) =
                   IF l # UNDEFINED /\ r # UNDEFINED
                   THEN "(" \o lo \o " AND " \o hi \o ")"
                   ELSE IF l # UNDEFINED THEN lo
                   ELSE IF r # UNDEFINED THEN hi
                   ELSE ""
             /\ kept = <<>> => (ret' = Returned(EMPTY, "EMPTY") /\ q' = q)]_vars

\* in_range('d', UNDEFINED, '2020-01-01') gives 'd < ?' and ['2020-01-01']
C14_Witness ==
    /\ last.op = "in_range"
    /\ last.field = "d"
    /\ last.params = <<UNDEFINED, StrV(<<"2020-01-01">>)>>
    /\ q.style = "qmark"
    /\ Flat(ret.text) = "d < ?"
    /\ q.list = <<StrV(<<"2020-01-01">>)>>


\* the values Python takes for false
Falsy == {None, IntV(0), StrV(<<>>), BoolV(FALSE), ListV(<<>>)}

\* C15: cond binds its values exactly when its condition is truthy,
\* not_none exactly when the value is not None (0, '' and False are bound),
\* not_empty exactly when the value is truthy; otherwise each returns EMPTY
\* and leaves storage and counter as they were.
C15_ConditionalHelpers ==
    [][last'.op \in {"cond", "not_none", "not_empty"} =>
          LET ps == last'.params
              holds == CASE last'.op = "cond" -> last'.value \notin Falsy
                         [] last'.op = "not_none" -> ps[1] # None
                         [] last'.op = "not_empty" -> ps[1] \notin Falsy
              marks == [i \in 1..Len(ps) |-> Placeholder(q.style, q.count + i)]
          IN IF holds
             THEN /\ StoredValues(q') = StoredValues(q) \o ps
                  /\ q'.count = q.count + Len(ps)
                  /\ NumFields(last'.expr) <= Len(ps) =>
                        ret' = Returned(format(last'.expr, marks), "Expr")
             ELSE /\ ret' = Returned(EMPTY, "EMPTY")
                  /\ q' = q
                  /\ tokens' = tokens]_vars

\* not_none('x = {}', False) binds False
C15_Witness ==
    /\ last.op = "not_none"
    /\ last.params = <<BoolV(FALSE)>>
    /\ last.expr = <<"x = ", "{}">>
    /\ q.style = "named"
    /\ ret.text = <<"x = ", ":p0">>
    /\ StoredValues(q) = <<BoolV(FALSE)>>


\* C16: a marker gives the value itself or UNDEFINED and nothing else:
\* not_none/v is UNDEFINED exactly when v is None, not_empty/v exactly when
\* v is falsy, cond(c)/v exactly when c is falsy, whatever v is; otherwise
\* the value passes through unchanged.  UNDEFINED is distinct from None
\* and from every ordinary value.
C16_Markers ==
    last.op \in {"not_none/", "not_empty/", "cond/"} =>
        LET v == last.value
            c == last.kwargs[1].value
            out == last.params[1]
            off == CASE last.op = "not_none/" -> v = None
                     [] last.op = "not_empty/" -> v \in Falsy
                     [] last.op = "cond/" -> c \in Falsy
        IN /\ out = (IF off THEN UNDEFINED ELSE v)
           /\ v # UNDEFINED => (out = UNDEFINED <=> off)
           /\ UNDEFINED # None
           /\ UNDEFINED \notin Falsy \cup {IntV(1)}

\* not_none/0 is 0 and is bound; cond(0)/.. before it was not
C16_Witness ==
    /\ last.op = "not_none/"
    /\ last.value = IntV(0)
    /\ last.params = <<IntV(0)>>
    /\ StoredValues(q) = <<IntV(0)>>
    /\ ret.obj = "Expr"


Defined(p) == p.value # UNDEFINED

\* C17: assign renders 'field = <placeholder>' for every pair whose value is
\* not UNDEFINED, in keyword order, joined by ', ', and stores those values
\* in that order; None is bound, never rendered as IS NULL; SET is 'SET '
\* before that text, and EMPTY with the accumulator unchanged when no pair
\* is left.
C17_AssignSet ==
    [][last'.op \in {"assign", "SET"} =>
          LET kept == SelectSeq(last'.kwargs, Defined)
              frs == [i \in 1..Len(kept) |->
                        <<kept[i].key, " = ", Placeholder(q.style, q.count + i)>>]
              text == Interleave(", ", frs)
          IN /\ StoredValues(q') =
                   StoredValues(q) \o [i \in 1..Len(kept) |-> kept[i].value]
             /\ q'.count = q.count + Len(kept)
             /\ kept # <<>> =>
                   ret'.text = (IF last'.op = "SET" THEN <<"SET ">> ELSE <<>>)
                               \o text
             /\ kept = <<>> => (ret' = Returned(EMPTY, "EMPTY") /\ q' = q)]_vars

\* SET(b=None, a=1) gives 'SET b = ?, a = ?' and [None, 1]
C17_Witness ==
    /\ last.op = "SET"
    /\ last.kwargs = <<Item("b", None), Item("a", IntV(1))>>
    /\ q.style = "qmark"
    /\ ret.text = <<"SET ", "b", " = ", "?", ", ", "a", " = ", "?">>
    /\ q.list = <<None, IntV(1)>>


\* the cell of a row under a column
Cell(row, col) == row[CHOOSE i \in 1..Len(row) : row[i].key = col].value

\* C18: VALUES with R rows over C columns renders the column list once and
\* then R groups of C placeholders, and stores the R*C cells row by row,
\* every row in the order of the first row's keys, also when a later row
\* lists its keys in another order; VALUES(**kw) without rows is one row
\* made of the keyword pairs.
C18_Values ==
    [][last'.op = "VALUES" =>
          LET rows == IF last'.data = <<>> THEN <<last'.kwargs>> ELSE last'.data
              R == Len(rows)
              cols == [i \in 1..Len(rows[1]) |-> rows[1][i].key]
              C == Len(cols)
              cells == [k \in 1..(R * C) |->
                          Cell(rows[((k - 1) \div C) + 1], cols[((k - 1) % C) + 1])]
              group(r) ==
                  <<"(">>
                  \o Interleave(", ", [c \in 1..C |->
                        <<Placeholder(q.style, q.count + (r - 1) * C + c)>>])
                  \o <<")">>
          IN /\ StoredValues(q') = StoredValues(q) \o cells
             /\ q'.count = q.count + R * C
             /\ Flat(ret'.text) =
                   Flat(<<"(">> \o Interleave(", ", [c \in 1..C |-> <<cols[c]>>])
                        \o <<") VALUES ">>
                        \o Interleave(", ", [r \in 1..R |-> group(r)]))]_vars

\* VALUES([{a: 0, b: 1}, {b: 0, a: 1}]) stores [0, 1, 1, 0]
C18_Witness ==
    /\ last.op = "VALUES"
    /\ last.data = <<(<<Item("a", IntV(0)), Item("b", IntV(1))>>),
                     (<<Item("b", IntV(0)), Item("a", IntV(1))>>)>>
    /\ q.style = "numeric"
    /\ Flat(ret.text) = "(a, b) VALUES (:1, :2), (:3, :4)"
    /\ q.list = <<IntV(0), IntV(1), IntV(1), IntV(0)>>


\* C19: what a factory preset or a Dialect descriptor hands out is a new
\* accumulator with empty storage and counter 0 that shares nothing with
\* another one: whatever binds are made through two of them, in whatever
\* order, each holds the values bound through it, in its own order, and a
\* bind through one leaves the other as it was.
C19_Independent ==
    /\ StoredValues(q) = bound
    /\ StoredValues(Second) = bound2
    /\ last.op \in {"factory", "__get__"} =>
          /\ ref2 = 2
          /\ Second.count = 0
          /\ StoredValues(Second) = <<>>
          /\ Second = Preset(last.field)
    /\ last.op = "new" => (q.count = 0 /\ StoredValues(q) = <<>>)

\* q1 / 10 / 20 and q2 / 20 with q2 made after the first bind on q1
C19_Witness ==
    /\ q.style = "qmark"
    /\ q2.style = "qmark"
    /\ StoredValues(q) = <<IntV(10), IntV(20)>>
    /\ StoredValues(Second) = <<IntV(20)>>
    /\ bound2 = <<IntV(20)>>
    /\ last.op = "truediv"


PathOps == {"q.attr", "q._", "e.attr", "e(literal)"}

\* the path the specification gives the expression an access makes
NewPath(l, heap) ==
    CASE l.op = "q.attr" -> l.field
      [] l.op = "q._" -> ""
      [] l.op = "e(literal)" -> l.field
      [] l.op = "e.attr" ->
           LET old == Flat(heap[l.value.n])
           IN IF old = "" THEN l.field ELSE old \o "." \o l.field

\* nothing but a comparison or IN changes the accumulator
OnlyBindsChange ==
    /\ last'.op \in PathOps => (q' = q /\ tokens' = tokens)
    /\ q' # q => last'.op \in CompareOps \cup {"QExpr.IN"}
    /\ last'.op \in CompareOps \cup {"QExpr.IN", "QExpr.__invert__"} =>
          exprs' = exprs
    /\ (last'.op \in {"==", "!="} /\ last'.value = None) => q' = q
    /\ last'.op = "QExpr.__invert__" => q' = q

Collides(l) ==
    \/ l.op = "q.attr" /\ l.field \in QueryParamsAttrs
    \/ l.op = "e.attr" /\ l.field \in QExprAttrs

CondTokens ==
    IF last.op = "call" /\ ret.obj = "Expr"
    THEN SubSeq(tokens, Len(tokens) - NumFields(last.expr) + 1, Len(tokens))
    ELSE <<>>

\* the tokens of the clause q.WHERE returned, in the order of its text:
\* those of the keyword pairs, then those of the condition
ClauseTokens ==
    SubSeq(tokens', Len(tokens) + 1, Len(tokens'))
    \o (IF last'.frags = <<>> THEN <<>> ELSE CondTokens)

\* C21: for the list styles, the k-th placeholder token of the clause
\* q.WHERE(*conds, **kwargs) returns, read left to right, belongs to the
\* k-th of the values the conditions and the pairs stored, when every
\* template had as many fields as values.
C21_WhereAligned ==
    [][(last'.op = "WHERE" /\ exact' /\ q.style \in ListStyles) =>
          LET base == Len(StoredValues(q'))  - Len(ClauseTokens)
          IN \A k \in 1..Len(ClauseTokens) :
                ClauseTokens[k].slot = base + k]_vars


\* C22: a bind call that fails because its template has more '{}' fields
\* than values were supplied leaves the accumulator, storage and counter,
\* as it was before the call, for every style.
C22_FailedBindIsAtomic ==
    [][(ret'.raised /\ NumFields(last'.expr) > Len(last'.params)) =>
          /\ StoredValues(q') = StoredValues(q)
          /\ q'.count = q.count]_vars


\* the accumulator with the same values and counter under the qmark style
AsQMark(acc) ==
    [acc EXCEPT !.style = "qmark", !.list = StoredValues(acc), !.dict = <<>>]

\* C23: on the accumulator of sqlite_named, IN with 1 to 10 values renders
\* one ':pN' token per value, N going on from the counter, and stores each
\* value under its key pN; IN with no value renders '0' and IN with more
\* than 10 values renders the inline list, both as the qmark accumulator of
\* the SQLite dialect does, and the mapping stays as it was.
C23_NamedSQLiteIN ==
    [][(last'.op = "IN" /\ last'.value.kind = "list" /\ q.style = "named") =>
          LET vs == last'.value.s
              n == Len(vs)
          IN /\ (1 <= n /\ n <= 10) =>
                  /\ ret'.text =
                        <<last'.field, " IN (">>
                        \o Interleave(",", [i \in 1..n |->
                                <<":p" \o ToString(q.count + i - 1)>>])
                        \o <<")">>
                  /\ q'.dict = q.dict \o
                        [i \in 1..n |->
                            Item("p" \o ToString(q.count + i - 1), vs[i])]
                  /\ q'.count = q.count + n
             /\ (n = 0 \/ n > 10) =>
                  /\ ret' = QueryParams_IN(AsQMark(q), last'.field,
                                           last'.value).ret
                  /\ n = 0 => ret'.text = <<"0">>
                  /\ q' = q
                  /\ tokens' = tokens]_vars

\* q = Dialect.sqlite_named(); q/0; q.IN('a', [1, 2, 3])
C23_Witness ==
    /\ last.op = "IN"
    /\ q.style = "named"
    /\ q.dialect = "SQLiteDialect"
    /\ ret.text = <<"a", " IN (", ":p1", ",", ":p2", ",", ":p3", ")">>
    /\ q.dict = <<Item("p0", IntV(0)), Item("p1", IntV(1)),
                  Item("p2", IntV(2)), Item("p3", IntV(3))>>
    /\ q.count = 4

====
